---- MODULE Spec2Model ----
(***************************************************************************)
(* Model of the BOOTP/DHCP frame and option codec of dhcp-rs:              *)
(*   src/src/common.rs  the Option / Frame / Error records                 *)
(*   src/src/parser.rs  Option::parse and Frame::parse                     *)
(*   src/src/writer.rs  Option::new, the set_data* mutators, to_bytes,     *)
(*                      Frame::new, add_option, Frame::to_bytes            *)
(*   src/src/server.rs  the listener that hands datagrams to Frame::parse  *)
(*                                                                         *)
(* Bytes are naturals in 0..255 and a byte buffer is a sequence of bytes.  *)
(* A cursor position is 0-based as in std::io::Cursor; sequences are       *)
(* 1-based, so the byte at position p is b[p + 1].                         *)
(* A u16 is a natural below 65536.  A u32 / u64 is a tuple of 2 / 4 such   *)
(* 16-bit limbs, most significant first, so that the whole 32 / 64 bit     *)
(* range is representable.                                                 *)
(***************************************************************************)
EXTENDS Integers, Sequences, FiniteSets, TLC

VARIABLES
    buf,    \* Frame::parse: the input slice `buf`
    pc,     \* position of the running operation
    cur,    \* Frame::parse: cur.position()
    opts,   \* Frame::parse: the local `opts` vector
    hdr,    \* Frame::parse: the locals read from the fixed header
    res,    \* Frame::parse: the returned Result<Frame>
    obuf,   \* Option::parse: the input slice
    ores,   \* Option::parse: the returned Result<Option>
    opt,    \* writer: an Option under construction
    mres,   \* writer: the value returned by the last Option mutator
    frame,  \* writer: a Frame under construction
    out     \* writer: the Result<Vec<u8>> of Frame::to_bytes

vars == <<buf, pc, cur, opts, hdr, res, obuf, ores, opt, mres, frame, out>>

parseVars  == <<buf, pc, cur, opts, hdr, res>>
optionVars == <<obuf, ores>>
buildVars  == <<opt, mres>>
writeVars  == <<frame, out>>

----------------------------------------------------------------------------
(* Bounds of the explored inputs.                                          *)

MaxTail  == 4   \* bytes following the magic cookie in a received datagram
MaxOptBuf == 3  \* length of the exhaustively enumerated Option::parse inputs
MaxShort == 3   \* length of the exhaustively enumerated set_data inputs
MaxOpts  == 2   \* add_option calls on one frame

----------------------------------------------------------------------------
(* Byte helpers.                                                           *)

Byte == 0 .. 255

\* vec![b; n]
Fill(n, b) == [i \in 1 .. n |-> b]

\* `x as u8` on a usize
AsU8(n) == n % 256

Last(s) == s[Len(s)]

\* Cursor<&[u8]>::read_exact of n bytes at position pos: either the n bytes
\* and the advanced position, or io::ErrorKind::UnexpectedEof.
ReadExactLenient(b, pos, n) ==
    [ok   |-> TRUE,
     data |-> [i \in 1 .. n |-> IF pos + i <= Len(b) THEN b[pos + i] ELSE 0],
     pos  |-> pos + n]

ReadExact(b, pos, n) ==
    IF pos + n <= Len(b)
    THEN [ok |-> TRUE, data |-> SubSeq(b, pos + 1, pos + n), pos |-> pos + n]
    ELSE [ok |-> FALSE, data |-> <<>>, pos |-> pos]

\* io::Error::description() of the failed read_exact
EofMsg == "failed to fill whole buffer"

\* byteorder::BigEndian reads
ReadU16BE(d) == d[1] * 256 + d[2]
ReadU32BE(d) == <<d[1] * 256 + d[2], d[3] * 256 + d[4]>>

\* byteorder::BigEndian writes
WriteU16BE(v) == <<v \div 256, v % 256>>
WriteU32BE(v) == WriteU16BE(v[1]) \o WriteU16BE(v[2])
WriteU64BE(v) == WriteU16BE(v[1]) \o WriteU16BE(v[2])
                 \o WriteU16BE(v[3]) \o WriteU16BE(v[4])

----------------------------------------------------------------------------
(* common.rs: Result / Error values.                                       *)

Ok(v)   == [kind |-> "Ok", val |-> v, msg |-> <<>>]
Err(m)  == [kind |-> "Err", val |-> <<>>, msg |-> m]
Panic   == [kind |-> "panic", val |-> <<>>, msg |-> <<>>]
NoResult == [kind |-> "none", val |-> <<>>, msg |-> <<>>]

\* common.rs: struct Option
MkOption(tag, len, data) == [tag |-> tag, len |-> len, data |-> data]

----------------------------------------------------------------------------
(* parser.rs: Option::parse                                                *)

\* Option::parse reading the data with read() instead of read_exact()
OptionParseShortRead(b) ==
    IF Len(b) < 2
    THEN Err(<<"Frame too short">>)
    ELSE LET avail == IF Len(b) - 2 < b[2] THEN Len(b) - 2 ELSE b[2]
         IN  Ok(MkOption(b[1], b[2], SubSeq(b, 3, 2 + avail)))

\* Option::parse copying the data from the length byte on
OptionParseOffByOne(b) ==
    IF Len(b) < 2 \/ Len(b) < 2 + b[2]
    THEN Err(<<"Frame too short">>)
    ELSE Ok(MkOption(b[1], b[2], SubSeq(b, 2, 1 + b[2])))

OptionParse(b) ==
    IF Len(b) < 2
    THEN Err(<<"Frame too short">>)
    ELSE LET first == ReadExact(b, 0, 2)
         IN  IF ~first.ok
             THEN Err(<<EofMsg>>)
             ELSE LET tag  == first.data[1]
                      len  == first.data[2]
                      data == ReadExact(b, first.pos, len)
                  IN  IF ~data.ok
                      THEN Err(<<EofMsg>>)
                      ELSE Ok(MkOption(tag, len, data.data))

----------------------------------------------------------------------------
(* parser.rs: Frame::parse                                                 *)

\* the guard at the top of Frame::parse
MinFrameLen == 44

\* the widths of the header reads, in order: first, xid, secs, flags,
\* ciaddr, yiaddr, siaddr, giaddr, chaddr, sname, file
HeaderWidths == <<4, 4, 2, 2, 4, 4, 4, 4, 16, 64, 128>>

\* common.rs: struct Frame
MkFrame(op, htype, hlen, hops, xid, secs, flags, ciaddr, yiaddr, siaddr, giaddr, chaddr, sname, file, options) ==
    [op |-> op, htype |-> htype, hlen |-> hlen, hops |-> hops,
     xid |-> xid, secs |-> secs, flags |-> flags,
     ciaddr |-> ciaddr, yiaddr |-> yiaddr, siaddr |-> siaddr,
     giaddr |-> giaddr, chaddr |-> chaddr, sname |-> sname, file |-> file,
     options |-> options]

\* the cursor positions of a chain of reads that starts at pos: the k-th
\* entry is the position before the k-th read, every successful read_exact
\* advancing the cursor by its width
RECURSIVE PosBefore(_, _)
PosBefore(pos, widths) ==
    IF widths = <<>>
    THEN <<pos>>
    ELSE LET n == Len(widths)
             p == PosBefore(pos, SubSeq(widths, 1, n - 1))
         IN  Append(p, p[n] + widths[n])

\* the cursor position before each header read (and after the last one)
HeaderOffsets == PosBefore(0, HeaderWidths)

\* the chain of try!(cur.read_exact(..)) / try!(cur.read_uNN(..)) calls: the
\* chunks read, or the failure of the first read that finds too few bytes
\* (a read of the chain can fail only if every later one would)
ReadFields(b) ==
    LET n    == Len(HeaderWidths)
        read == [k \in 1 .. n |-> ReadExact(b, HeaderOffsets[k], HeaderWidths[k])]
    IN  IF \E k \in 1 .. n : ~read[k].ok
        THEN [ok |-> FALSE, chunks |-> <<>>, pos |-> 0]
        ELSE [ok     |-> TRUE,
              chunks |-> [k \in 1 .. n |-> read[k].data],
              pos    |-> HeaderOffsets[n + 1]]

\* the header locals and the cursor position once every read has succeeded,
\* or the error of the read that failed
HeaderResult(r) ==
    IF ~r.ok
    THEN Err(<<EofMsg>>)
    ELSE LET c == r.chunks
         IN  Ok([pos |-> r.pos,
                 frame |-> MkFrame(c[1][1], c[1][2], c[1][3], c[1][4],
                                   ReadU32BE(c[2]), ReadU16BE(c[3]),
                                   ReadU16BE(c[4]),
                                   c[5], c[6], c[7], c[8], c[9],
                                   c[10], c[11], <<>>)])

\* Frame::parse up to `let mut opts = Vec::new()`: the header locals and the
\* cursor position, or the error returned.  (The set binds r to the value of
\* the reads, which are then evaluated once.)
FrameParseHeader(b) ==
    IF Len(b) < MinFrameLen
    THEN Err(<<"Frame too short">>)
    ELSE CHOOSE h \in {HeaderResult(r) : r \in {ReadFields(b)}} : TRUE

\* `let buf = cur.get_ref()`: the slice handed to Option::parse in the loop.
\* Cursor::get_ref returns the whole underlying slice, whatever the position.
GetRef(b, pos) == b

\* One iteration of the option loop that treats End as "do not push"
LoopBodyNoBreak(b, pos, os) ==
    LET o == OptionParse(GetRef(b, pos))
    IN  IF o.kind # "Ok"
        THEN [kind |-> "err", opts |-> os, pos |-> pos,
              msg |-> <<"Failed to parse option: ">> \o o.msg]
        ELSE LET os2 == IF o.val.tag = 255 THEN os ELSE Append(os, o.val)
             IN  IF os2 = <<>>
                 THEN [kind |-> "panic", opts |-> os2, pos |-> pos, msg |-> <<>>]
                 ELSE [kind |-> "continue", opts |-> os2,
                       pos |-> pos + 2 + Len(Last(os2).data), msg |-> <<>>]

\* One iteration of the option loop that advances the cursor past the tag and
\* the data but not past the length byte
LoopBodyShortAdvance(b, pos, os) ==
    LET o == OptionParse(GetRef(b, pos))
    IN  IF o.kind # "Ok"
        THEN [kind |-> "err", opts |-> os, pos |-> pos,
              msg |-> <<"Failed to parse option: ">> \o o.msg]
        ELSE IF o.val.tag = 255
        THEN [kind |-> "break", opts |-> os, pos |-> pos, msg |-> <<>>]
        ELSE LET os2 == Append(os, o.val)
             IN  IF os2 = <<>>
                 THEN [kind |-> "panic", opts |-> os2, pos |-> pos, msg |-> <<>>]
                 ELSE [kind |-> "continue", opts |-> os2,
                       pos |-> pos + 1 + Len(Last(os2).data), msg |-> <<>>]

\* One iteration of `while cur.position() < buf.len()`: the match on
\* Option::parse, then opts.last().unwrap() and cur.set_position
LoopBody(b, pos, os) ==
    LET o == OptionParse(GetRef(b, pos))
    IN  IF o.kind # "Ok"
        THEN [kind |-> "err", opts |-> os, pos |-> pos,
              msg |-> <<"Failed to parse option: ">> \o o.msg]
        ELSE IF o.val.tag = 255
        THEN [kind |-> "break", opts |-> os, pos |-> pos, msg |-> <<>>]
        ELSE LET os2 == Append(os, o.val)
             IN  IF os2 = <<>>
                 THEN [kind |-> "panic", opts |-> os2, pos |-> pos, msg |-> <<>>]
                 ELSE [kind |-> "continue", opts |-> os2,
                       pos |-> pos + 2 + Len(Last(os2).data), msg |-> <<>>]

\* the Frame constructed after the loop
WithOptions(f, os) == [f EXCEPT !.options = os]

\* Frame::parse, from the call to the first evaluation of the loop condition
FrameParseEnter ==
    /\ pc = "recv"
    /\ \E h \in {FrameParseHeader(buf)} :
           IF h.kind = "Err"
           THEN /\ res' = Err(h.msg)
                /\ pc' = "done"
                /\ UNCHANGED <<cur, opts, hdr>>
           ELSE /\ hdr' = h.val.frame
                /\ cur' = h.val.pos
                /\ opts' = <<>>
                /\ pc' = "loop"
                /\ UNCHANGED res
    /\ UNCHANGED <<buf, optionVars, buildVars, writeVars>>

\* Frame::parse, one iteration of the option loop
FrameParseOption ==
    /\ pc = "loop"
    /\ cur < Len(buf)
    /\ \E r \in {LoopBody(buf, cur, opts)} :
           /\ opts' = r.opts
           /\ cur' = r.pos
           /\ pc' = IF r.kind = "continue" THEN "loop" ELSE "done"
           /\ res' = CASE r.kind = "continue" -> res
                       [] r.kind = "break"    -> Ok(WithOptions(hdr, r.opts))
                       [] r.kind = "err"      -> Err(r.msg)
                       [] OTHER               -> Panic
    /\ UNCHANGED <<buf, hdr, optionVars, buildVars, writeVars>>

\* Frame::parse, the loop condition is false: construct and return the Frame
FrameParseReturn ==
    /\ pc = "loop"
    /\ cur >= Len(buf)
    /\ res' = Ok(WithOptions(hdr, opts))
    /\ pc' = "done"
    /\ UNCHANGED <<buf, cur, opts, hdr, optionVars, buildVars, writeVars>>

----------------------------------------------------------------------------
(* writer.rs: Option::new, the mutators, Option::to_bytes                  *)

OptionNew(tag) == MkOption(tag, 0, <<>>)

\* set_data(data: Vec<u8>)
SetData(o, data) == [o EXCEPT !.len = AsU8(Len(data)), !.data = data]

\* set_data_str(data: &str); s is the UTF-8 encoding of the string
SetDataStr(o, s) == [o EXCEPT !.len = AsU8(Len(s)), !.data = s]

SetDataU8(o, d)  == [o EXCEPT !.len = 1, !.data = <<d>>]
SetDataU16(o, d) == [o EXCEPT !.len = 2, !.data = <<>> \o WriteU16BE(d)]
SetDataU32(o, d) == [o EXCEPT !.len = 4, !.data = <<>> \o WriteU32BE(d)]
SetDataU64(o, d) == [o EXCEPT !.len = 8, !.data = <<>> \o WriteU64BE(d)]

OptionToBytes(o) == <<o.tag, o.len>> \o o.data

----------------------------------------------------------------------------
(* writer.rs: Frame::new, add_option, Frame::to_bytes                      *)

\* the magic cookie, vec![0x63, 0x82, 0x53, 0x63]
Magic == <<99, 130, 83, 99>>

FrameNew(op, xid) ==
    MkFrame(op, 1, 6, 0, xid, 0, 0,
            Fill(4, 0), Fill(4, 0), Fill(4, 0), Fill(4, 0),
            Fill(16, 0), Fill(64, 0), Fill(128, 0), <<>>)

AddOption(f, o) == [f EXCEPT !.options = Append(f.options, o)]

\* `for opt in self.options.iter() { buf.extend(opt.to_bytes()) }`
RECURSIVE OptionsToBytes(_)
OptionsToBytes(os) ==
    IF os = <<>> THEN <<>>
    ELSE OptionToBytes(Head(os)) \o OptionsToBytes(Tail(os))

\* Frame::to_bytes closing the option list with an End byte
FrameToBytesWithEnd(f) ==
    Ok(<<f.op, f.htype, f.hlen, f.hops>>
       \o WriteU32BE(f.xid) \o WriteU16BE(f.secs) \o WriteU16BE(f.flags)
       \o f.ciaddr \o f.yiaddr \o f.siaddr \o f.giaddr \o f.chaddr
       \o f.sname \o f.file
       \o Magic
       \o OptionsToBytes(f.options) \o <<255>>)

FrameToBytes(f) ==
    Ok(<<f.op, f.htype, f.hlen, f.hops>>
       \o WriteU32BE(f.xid) \o WriteU16BE(f.secs) \o WriteU16BE(f.flags)
       \o f.ciaddr \o f.yiaddr \o f.siaddr \o f.giaddr \o f.chaddr
       \o f.sname \o f.file
       \o Magic
       \o OptionsToBytes(f.options))

----------------------------------------------------------------------------
(* server.rs: the datagrams `&buf[..len]` handed to Frame::parse.          *)

\* 236 header bytes that are pairwise distinct apart from op and htype
Header(op, htype) ==
    [i \in 1 .. 236 |->
        IF i = 1 THEN op ELSE IF i = 2 THEN htype ELSE (i * 7 + 3) % 256]

OpBytes    == {1, 255}
HtypeBytes == {0, 1, 255}
TailBytes  == {0, 1, 53, 255}
Cookies    == {Magic, <<0, 0, 0, 0>>}
ShortLens  == {0, 1, 4, 43, 44, 45, 107, 108, 235, 236, 237, 238, 239}

Tails == UNION {[1 .. n -> TailBytes] : n \in 0 .. MaxTail}

Datagrams ==
    {Header(op, ht) \o ck \o t :
        op \in OpBytes, ht \in HtypeBytes, ck \in Cookies, t \in Tails}
    \cup
    {SubSeq(Header(op, ht) \o Magic, 1, n) :
        op \in OpBytes, ht \in HtypeBytes, n \in ShortLens}

----------------------------------------------------------------------------
(* Initial values of the variables an operation does not use.              *)

IdleParse  == /\ buf = <<>> /\ pc = "idle" /\ cur = 0 /\ opts = <<>>
              /\ hdr = <<>> /\ res = NoResult
IdleOption == obuf = <<>> /\ ores = NoResult
IdleBuild  == opt = <<>> /\ mres = NoResult
IdleWrite  == frame = <<>> /\ out = NoResult

(* The listener: Frame::parse on a received datagram.                      *)
Init ==
    /\ buf \in Datagrams
    /\ pc = "recv"
    /\ cur = 0 /\ opts = <<>> /\ hdr = <<>> /\ res = NoResult
    /\ IdleOption /\ IdleBuild /\ IdleWrite

Next == FrameParseEnter \/ FrameParseOption \/ FrameParseReturn

Spec == Init /\ [][Next]_vars

(* The listener: a received datagram is handed to Frame::parse.  The calls  *)
(* of successive loop iterations share no state, so one call is followed.  *)
Receive ==
    /\ pc = "listen"
    /\ buf' \in Datagrams
    /\ pc' = "recv"
    /\ cur' = 0 /\ opts' = <<>> /\ hdr' = <<>> /\ res' = NoResult
    /\ UNCHANGED <<optionVars, buildVars, writeVars>>

InitListen ==
    /\ buf = <<>>
    /\ pc = "listen"
    /\ cur = 0 /\ opts = <<>> /\ hdr = <<>> /\ res = NoResult
    /\ IdleOption /\ IdleBuild /\ IdleWrite

NextListen == Receive \/ FrameParseEnter \/ FrameParseOption \/ FrameParseReturn

\* Frame::parse is straight-line sequential code: a call that can take a step
\* takes it.  Nothing obliges a datagram to arrive.
FairSpec == InitListen /\ [][NextListen]_vars /\ WF_vars(Next)

----------------------------------------------------------------------------
(* Option::parse on its own.                                               *)

OptBytes == {0, 1, 2, 53, 255}

OptBufs ==
    UNION {[1 .. n -> OptBytes] : n \in 0 .. MaxOptBuf}
    \cup
    {<<60, d>> \o Fill(n, 80) : d \in {32, 255}, n \in {31, 32, 33, 254, 255, 256}}

OptionParseCall ==
    /\ ores.kind = "none"
    /\ ores' = OptionParse(obuf)
    /\ UNCHANGED <<obuf, parseVars, buildVars, writeVars>>

InitOptionParse ==
    /\ obuf \in OptBufs
    /\ ores = NoResult
    /\ IdleParse /\ IdleBuild /\ IdleWrite

NextOptionParse == OptionParseCall

SpecOptionParse == InitOptionParse /\ [][NextOptionParse]_vars

----------------------------------------------------------------------------
(* Building an Option: Option::new followed by any mutator calls.          *)

Tags      == {0, 53, 255}
DataBytes == {0, 7, 255}
LongLens  == {255, 256, 257}

ByteVecs ==
    UNION {[1 .. n -> DataBytes] : n \in 0 .. MaxShort}
    \cup {Fill(n, 7) : n \in LongLens}

\* UTF-8 encodings of the &str arguments: "", "PXE", "e-acute", "aaa..."
Strs == {<<>>, <<80, 88, 69>>, <<195, 169>>} \cup {Fill(n, 97) : n \in LongLens}

U8s  == {0, 1, 255}
U16s == {0, 1500, 65535}
U32s == {<<0, 0>>, <<28294, 17484>>, <<65535, 65535>>}
U64s == {<<0, 0, 0, 1>>, <<258, 772, 1286, 1800>>, <<65535, 65535, 65535, 65535>>}

\* the value of a mutator that returns ()
Unit == [kind |-> "unit", val |-> <<>>, msg |-> <<>>]

OptSetData ==
    /\ \E d \in ByteVecs : opt' = SetData(opt, d)
    /\ mres' = Unit
    /\ UNCHANGED <<parseVars, optionVars, writeVars>>

OptSetDataStr ==
    /\ \E d \in Strs : opt' = SetDataStr(opt, d)
    /\ mres' = Unit
    /\ UNCHANGED <<parseVars, optionVars, writeVars>>

OptSetDataU8 ==
    /\ \E d \in U8s : opt' = SetDataU8(opt, d)
    /\ mres' = Unit
    /\ UNCHANGED <<parseVars, optionVars, writeVars>>

OptSetDataU16 ==
    /\ \E d \in U16s : opt' = SetDataU16(opt, d)
    /\ mres' = Ok(<<>>)
    /\ UNCHANGED <<parseVars, optionVars, writeVars>>

OptSetDataU32 ==
    /\ \E d \in U32s : opt' = SetDataU32(opt, d)
    /\ mres' = Ok(<<>>)
    /\ UNCHANGED <<parseVars, optionVars, writeVars>>

OptSetDataU64 ==
    /\ \E d \in U64s : opt' = SetDataU64(opt, d)
    /\ mres' = Ok(<<>>)
    /\ UNCHANGED <<parseVars, optionVars, writeVars>>

InitOptionBuild ==
    /\ opt \in {OptionNew(t) : t \in Tags}
    /\ mres = NoResult
    /\ IdleParse /\ IdleOption /\ IdleWrite

NextOptionBuild ==
    \/ OptSetData \/ OptSetDataStr \/ OptSetDataU8
    \/ OptSetDataU16 \/ OptSetDataU32 \/ OptSetDataU64

SpecOptionBuild == InitOptionBuild /\ [][NextOptionBuild]_vars

----------------------------------------------------------------------------
(* Building a Frame, encoding it, and parsing the encoding.                *)

Xids == {<<0, 0>>, <<65535, 65535>>}

\* the options handed to add_option, each built with the writer's mutators
BuiltOptions ==
    {SetDataU8(OptionNew(53), 1),
     OptionNew(0),
     OptionNew(255),
     SetData(OptionNew(61), Fill(256, 7))}

\* values assigned to the public fields of a Frame, of the mandated widths
FieldSamples ==
    {[htype |-> 6, hlen |-> 16, hops |-> 3, secs |-> 8, flags |-> 32768,
      ciaddr |-> <<192, 168, 0, 1>>, yiaddr |-> <<10, 0, 0, 2>>,
      siaddr |-> <<10, 0, 0, 3>>, giaddr |-> <<10, 0, 0, 4>>,
      chaddr |-> <<82, 84, 1, 18, 52, 86>> \o Fill(10, 0),
      sname |-> [i \in 1 .. 64 |-> i],
      file |-> [i \in 1 .. 128 |-> 255 - i]]}

FrameAssign ==
    /\ pc = "build"
    /\ \E v \in FieldSamples :
          frame' = [frame EXCEPT
                      !.htype = v.htype, !.hlen = v.hlen, !.hops = v.hops,
                      !.secs = v.secs, !.flags = v.flags,
                      !.ciaddr = v.ciaddr, !.yiaddr = v.yiaddr,
                      !.siaddr = v.siaddr, !.giaddr = v.giaddr,
                      !.chaddr = v.chaddr, !.sname = v.sname, !.file = v.file]
    /\ UNCHANGED <<out, pc, buf, cur, opts, hdr, res, optionVars, buildVars>>

FrameAddOption ==
    /\ pc = "build"
    /\ Len(frame.options) < MaxOpts
    /\ \E o \in BuiltOptions : frame' = AddOption(frame, o)
    /\ UNCHANGED <<out, parseVars, optionVars, buildVars>>

FrameEncode ==
    /\ pc = "build"
    /\ out' = FrameToBytes(frame)
    /\ pc' = "encoded"
    /\ UNCHANGED <<frame, buf, cur, opts, hdr, res, optionVars, buildVars>>

\* Frame::parse is called on the encoded bytes
FrameParseEncoded ==
    /\ pc = "encoded"
    /\ out.kind = "Ok"
    /\ buf' = out.val
    /\ pc' = "recv"
    /\ UNCHANGED <<cur, opts, hdr, res, optionVars, buildVars, writeVars>>

InitRoundTrip ==
    /\ frame \in {FrameNew(op, xid) : op \in OpBytes, xid \in Xids}
    /\ out = NoResult
    /\ pc = "build"
    /\ buf = <<>> /\ cur = 0 /\ opts = <<>> /\ hdr = <<>> /\ res = NoResult
    /\ IdleOption /\ IdleBuild

NextRoundTrip ==
    \/ FrameAssign \/ FrameAddOption \/ FrameEncode \/ FrameParseEncoded
    \/ FrameParseEnter \/ FrameParseOption \/ FrameParseReturn

SpecRoundTrip == InitRoundTrip /\ [][NextRoundTrip]_vars

----------------------------------------------------------------------------
(* The documented wire layout, used to state the properties.               *)

\* every fixed field of f equals the bytes of b at its documented offset
FieldsAtOffsets(f, b) ==
    /\ Len(b) >= 236
    /\ f.op = b[1] /\ f.htype = b[2] /\ f.hlen = b[3] /\ f.hops = b[4]
    /\ f.xid = <<b[5] * 256 + b[6], b[7] * 256 + b[8]>>
    /\ f.secs = b[9] * 256 + b[10]
    /\ f.flags = b[11] * 256 + b[12]
    /\ f.ciaddr = SubSeq(b, 13, 16)
    /\ f.yiaddr = SubSeq(b, 17, 20)
    /\ f.siaddr = SubSeq(b, 21, 24)
    /\ f.giaddr = SubSeq(b, 25, 28)
    /\ f.chaddr = SubSeq(b, 29, 44)
    /\ f.sname = SubSeq(b, 45, 108) /\ Len(f.sname) = 64
    /\ f.file = SubSeq(b, 109, 236) /\ Len(f.file) = 128

\* The TLV records of the option stream of b from position pos on, up to the
\* first End tag: wf says that every record before it is complete, end that
\* an End tag was met.
RECURSIVE StreamRecords(_, _)
StreamRecords(b, pos) ==
    IF pos >= Len(b)
    THEN [wf |-> TRUE, end |-> FALSE, recs |-> <<>>]
    ELSE IF b[pos + 1] = 255
    THEN [wf |-> TRUE, end |-> TRUE, recs |-> <<>>]
    ELSE IF pos + 2 > Len(b) \/ pos + 2 + b[pos + 2] > Len(b)
    THEN [wf |-> FALSE, end |-> FALSE, recs |-> <<>>]
    ELSE LET n    == b[pos + 2]
             rest == StreamRecords(b, pos + 2 + n)
         IN  [wf   |-> rest.wf,
              end  |-> rest.end,
              recs |-> <<MkOption(b[pos + 1], n, SubSeq(b, pos + 3, pos + 2 + n))>>
                       \o rest.recs]

\* the (tag, data) pairs of an option list
RECURSIVE TagData(_)
TagData(os) ==
    IF os = <<>> THEN <<>>
    ELSE <<<<Head(os).tag, Head(os).data>>>> \o TagData(Tail(os))

\* sum over the options of 2 + data.len()
RECURSIVE EncodedLen(_)
EncodedLen(os) ==
    IF os = <<>> THEN 0 ELSE 2 + Len(Head(os).data) + EncodedLen(Tail(os))

\* b is the documented encoding of f, and nothing else
Layout(b, f) ==
    /\ Len(b) = 240 + EncodedLen(f.options)
    /\ FieldsAtOffsets(f, b)
    /\ SubSeq(b, 237, 240) = <<99, 130, 83, 99>>
    /\ \A k \in 1 .. Len(f.options) :
          LET off == 240 + EncodedLen(SubSeq(f.options, 1, k - 1))
              o   == f.options[k]
          IN  /\ b[off + 1] = o.tag
              /\ b[off + 2] = o.len
              /\ SubSeq(b, off + 3, off + 2 + Len(o.data)) = o.data

----------------------------------------------------------------------------
(* Properties.                                                             *)

\* C1: parsing the encoding of a built frame whose options have tag # 255
\* and len = data.len() succeeds and gives back every fixed field and the
\* same (tag, data) pairs in the same order.
C1_RoundTrip ==
    (/\ pc = "done"
     /\ out.kind = "Ok" /\ buf = out.val
     /\ \A i \in 1 .. Len(frame.options) :
           /\ frame.options[i].tag # 255
           /\ frame.options[i].len = Len(frame.options[i].data))
    => (/\ res.kind = "Ok"
        /\ WithOptions(res.val, <<>>) = WithOptions(frame, <<>>)
        /\ Len(res.val.options) = Len(frame.options)
        /\ TagData(res.val.options) = TagData(frame.options))

\* C2: Frame::parse of any buffer of at least 236 bytes returns Ok, and every
\* fixed field of the frame equals the bytes at its documented offset.
C2_ParseAtLeast236 ==
    (pc = "done" /\ Len(buf) >= 236)
    => (res.kind = "Ok" /\ FieldsAtOffsets(res.val, buf))

\* C3: Frame::parse of any buffer of 0 to 235 bytes returns Err: it never
\* returns Ok and never panics, below the 44-byte guard and above it.
C3_ShortFrameRejected ==
    Len(buf) < 236
    => (/\ res.kind \notin {"Ok", "panic"}
        /\ (pc = "done" => res.kind = "Err"))

C3_Witness ==
    /\ pc = "done" /\ res.kind = "Err"
    /\ Len(buf) >= MinFrameLen /\ Len(buf) < 236

\* C4: when the option stream after the header and the magic cookie holds an
\* End record, an accepted buffer yields exactly the records before the
\* first End, in order.
C4_StopsAtEnd ==
    (/\ pc = "done" /\ res.kind = "Ok" /\ Len(buf) >= 240
     /\ StreamRecords(buf, 240).wf /\ StreamRecords(buf, 240).end)
    => (/\ res.val.options = StreamRecords(buf, 240).recs
        /\ \A i \in 1 .. Len(res.val.options) : res.val.options[i].tag # 255)

\* C5: Option::parse of a buffer shorter than 2 bytes, or shorter than 2 plus
\* its declared length, returns Err (never Ok, never a panic).
C5_TruncatedOptionRejected ==
    (ores.kind # "none" /\ (Len(obuf) < 2 \/ Len(obuf) < 2 + obuf[2]))
    => ores.kind = "Err"

C5_Witness ==
    /\ ores.kind = "Err"
    /\ Len(obuf) >= 2 /\ Len(obuf) < 2 + obuf[2]

\* C6: Option::parse of a buffer of at least 2 + buffer[1] bytes returns Ok
\* with tag = buffer[0], len = buffer[1] and data = buffer[2 .. 2+buffer[1]],
\* so len = data.len(); later bytes are ignored and the buffer is unchanged.
C6_OptionParseOk ==
    [][(/\ ores.kind = "none" /\ ores'.kind # "none"
        /\ Len(obuf) >= 2 /\ Len(obuf) >= 2 + obuf[2])
       => (/\ obuf' = obuf
           /\ ores'.kind = "Ok"
           /\ ores'.val.tag = obuf[1]
           /\ ores'.val.len = obuf[2]
           /\ ores'.val.data = SubSeq(obuf, 3, 2 + obuf[2])
           /\ ores'.val.len = Len(ores'.val.data))]_vars

C6_Witness ==
    /\ ores.kind = "Ok"
    /\ obuf[2] > 0 /\ Len(obuf) > 2 + obuf[2]
    /\ ores.val.data = SubSeq(obuf, 3, 2 + obuf[2])

\* C7: after Option::new and any sequence of mutator calls the option has
\* len = data.len() and data.len() <= 255.
C7_LengthInvariant ==
    opt.len = Len(opt.data) /\ Len(opt.data) <= 255

C9_ToBytesLayout ==
    [][(pc = "build" /\ pc' = "encoded")
       => (/\ frame' = frame
           /\ out'.kind = "Ok"
           /\ Layout(out'.val, frame))]_vars

C9_Witness ==
    /\ pc = "encoded" /\ out.kind = "Ok"
    /\ Len(frame.options) >= 2 /\ frame.hops = 3
    /\ Len(out.val) > 240

\* C10: when the bytes from offset 240 on are well-formed TLV records r1..rn,
\* none with tag 255, Frame::parse skips the magic cookie and returns exactly
\* [r1..rn] in order.
C10_DecodesStreamAtCursor ==
    (/\ pc = "done" /\ Len(buf) >= 240
     /\ StreamRecords(buf, 240).wf /\ ~StreamRecords(buf, 240).end)
    => (/\ res.kind = "Ok"
        /\ res.val.options = StreamRecords(buf, 240).recs)

\* ceil(n / 2) for n >= 0
CeilHalf(n) == (n + 1) \div 2

\* C11: Frame::parse returns on every buffer; an iteration of the option loop
\* that goes on to the next one moves the cursor forward by at least 2, so the
\* loop runs at most ceil((buf.len() - 236) / 2) iterations and returns at
\* most that many options, zero-length options included.
C11_LoopTerminates ==
    /\ (pc = "recv") ~> (pc = "done" /\ res.kind \in {"Ok", "Err"})
    /\ [][(pc = "loop" /\ pc' = "loop") => cur' >= cur + 2]_vars
    /\ []((pc = "loop" /\ cur < Len(buf))
          => Len(opts) + 1 <= CeilHalf(Len(buf) - 236))
    /\ []((pc = "done" /\ res.kind = "Ok")
          => Len(res.val.options) <= CeilHalf(Len(buf) - 236))

C11_Witness ==
    /\ pc = "done" /\ res.kind = "Ok"
    /\ Len(res.val.options) >= 2
    /\ Len(res.val.options) = CeilHalf(Len(buf) - 236)
    /\ \A i \in 1 .. Len(res.val.options) : res.val.options[i].data = <<>>

====
